---------------------------- MODULE Spec2Model ----------------------------
(***************************************************************************)
(* The playback resilience controller of components/VideoPlayer            *)
(* (src/types.ts lines 41-593): the strategy catalog, the React state of   *)
(* the component, the main effect with its cleanup, the timers it          *)
(* schedules and the signals of the playback sink (hls.js / <video>).      *)
(*                                                                         *)
(* One time-unit is 1000 ms.  Every handler runs to completion: the state  *)
(* updates of one callback are committed together and, when a dependency   *)
(* of the main effect changed, the previous effect's cleanup and the new   *)
(* effect run in the same step.                                            *)
(***************************************************************************)
EXTENDS Integers, Sequences, FiniteSets, TLC

VARIABLES
    phase,              \* "unmounted" | "mounted" | "destroyed"
    url,                \* the url prop (a sequence of address tokens)
    secure,             \* window.location.protocol === 'https:'
    hlsSupported,       \* Hls.isSupported()
    strategyIndex,      \* useState, types.ts:162
    retryCount,         \* useState, types.ts:159
    isReconnecting,     \* useState, types.ts:160
    isLoading,          \* useState, types.ts:152
    isPlaying,          \* useState, types.ts:151
    error,              \* useState, types.ts:153
    hlsRef,             \* hlsRef.current: 0 (null) or the id of an Hls instance
    liveHls,            \* ids of the Hls instances created and not destroyed
    videoError,         \* video.error is set: the element failed since its last load()
    videoSrc,           \* what the <video> element plays: [mode, src, idx] or NoSrc
    errListeners,       \* attempts whose onNativeError listener is on the <video>
    cleanupKind,        \* the cleanup the last effect run returned: [kind, lis]
    watchdogTimerRef,   \* watchdogTimerRef.current: 0 (null) or an interval id
    watchdogs,          \* active intervals: [id, rem, loading]
    cooldownTimers,     \* pending 3000 ms timeouts: sequence of remaining times
    graceTimers,        \* pending 1000 ms timeouts: sequence of [rem, cur]; cur: scheduled
                        \* by the attempt that is still the attached one
    attached,           \* the last step ran the main effect (a new attach)
    recovered,          \* category of the in-place recovery invoked on the attached
                        \* attempt since it last reported playing, or "none"
    lastOp              \* the last operation of the controller (a callback that is
                        \* not a lifecycle signal)

playerVars == <<phase, url, secure, hlsSupported, strategyIndex, retryCount,
                      isReconnecting, isLoading, isPlaying, error, hlsRef, liveHls,
                videoSrc, videoError, errListeners, cleanupKind, watchdogTimerRef,
                watchdogs, cooldownTimers, graceTimers, attached, recovered, lastOp>>

VARIABLES
    appMounted,         \* the effects of the first render of App have run
    appState,           \* useState, App.tsx:19
    playlist,           \* useState, App.tsx:20
    currentChannel,     \* useState, App.tsx:21: <<>> (null) or <<channel>>
    history,            \* useState, App.tsx:23
    appIsLoading,       \* useState isLoading of App, App.tsx:28
    loads,              \* calls of loadM3uUrl / loadXtreamConnection in flight:
                        \* [kind, pc, requests, text]
    resetTimers,        \* pending 1000 ms timeouts of the loaders' finally blocks
    localStorage,       \* the items playlist_config, nebula_playlist, watch_history
    net,                \* what the four sources of fetchPlaylist answer
    content,            \* the text of the file the user uploads
    replays             \* how often a channel of the history was played again

appVars == <<appMounted, appState, playlist, currentChannel, history, appIsLoading,
             loads, resetTimers, localStorage, net, content, replays>>

vars == <<playerVars, appVars>>

Null == "null"

---------------------------------------------------------------------------
(* Bounds of the model *)

MaxRetry == 2
MaxCooldown == 2
MaxGrace == 1

(* Program constants, in time-units of 1000 ms *)

GraceDelay == 1
CooldownDelay == 3
WatchdogPeriod == 5

---------------------------------------------------------------------------
(* Addresses are sequences of tokens; the string tests of the transforms   *)
(* (includes, startsWith, replace, trim) act on the tokens.                *)


Includes(u, t) == \E i \in 1..Len(u) : u[i] = t

StartsWith(u, t) == Len(u) >= 1 /\ u[1] = t

RECURSIVE TrimLeft(_)
TrimLeft(u) == IF Len(u) >= 1 /\ u[1] = " " THEN TrimLeft(Tail(u)) ELSE u

RECURSIVE TrimRight(_)
TrimRight(u) ==
    IF Len(u) >= 1 /\ u[Len(u)] = " "
    THEN TrimRight(SubSeq(u, 1, Len(u) - 1))
    ELSE u

Trim(u) == TrimRight(TrimLeft(u))

\* String.prototype.replace with a string pattern: the first occurrence only
ReplaceFirst(u, a, b) ==
    IF ~Includes(u, a) THEN u
    ELSE LET k == CHOOSE i \in 1..Len(u) :
                     u[i] = a /\ \A j \in 1..(i - 1) : u[j] # a
         IN  [i \in 1..Len(u) |-> IF i = k THEN b ELSE u[i]]

\* encodeURIComponent escapes ':', '/', '?', '=' and ' '; '.' and letters stay
EncodeToken(t) ==
    CASE t = "http:"       -> "http%3A"
      [] t = "https:"      -> "https%3A"
      [] t = " "           -> "%20"
      [] t = "//host/"     -> "%2F%2Fhost%2F"
      [] t = "?"           -> "%3F"
      [] t = "output=ts"   -> "output%3Dts"
      [] t = "output=m3u8" -> "output%3Dm3u8"
      [] OTHER             -> t

encodeURIComponent(u) == [i \in 1..Len(u) |-> EncodeToken(u[i])]

NeedsExtension(u) ==
    ~Includes(u, ".m3u8") /\ ~Includes(u, ".mp4") /\ ~Includes(u, "?")

DirectTransform(u) ==
    LET t == Trim(u)
    IN  IF Includes(t, "output=ts") THEN ReplaceFirst(t, "output=ts", "output=m3u8")
        ELSE IF NeedsExtension(t) THEN t \o <<".m3u8">>
        ELSE t

Gateway1Transform(u) ==
    LET t == Trim(u)
        n == IF Includes(t, "output=ts") THEN ReplaceFirst(t, "output=ts", "output=m3u8")
             ELSE IF NeedsExtension(t) THEN t \o <<".m3u8">>
             ELSE t
    IN  <<"https://corsproxy.io/?">> \o encodeURIComponent(n)

\* mutant: Gateway 2 with the normalization of Gateway 1
Gateway2TransformNormalizes(u) ==
    LET t == Trim(u)
        n == IF Includes(t, "output=ts") THEN ReplaceFirst(t, "output=ts", "output=m3u8")
             ELSE IF NeedsExtension(t) THEN t \o <<".m3u8">>
             ELSE t
    IN  <<"https://api.codetabs.com/v1/proxy?quest=">> \o encodeURIComponent(n)

Gateway2Transform(u) ==
    LET t == Trim(u)
        n == IF Includes(t, "output=ts") THEN ReplaceFirst(t, "output=ts", "output=m3u8")
             ELSE t
    IN  <<"https://api.codetabs.com/v1/proxy?quest=">> \o encodeURIComponent(n)

NativeTransform(u) == Trim(u)

StrategyMode(i) == IF i = 3 THEN "NATIVE" ELSE "HLS"

StrategyTransform(i, u) ==
    CASE i = 0 -> DirectTransform(u)
      [] i = 1 -> Gateway1Transform(u)
      [] i = 2 -> Gateway2Transform(u)
      [] i = 3 -> NativeTransform(u)

\* STRATEGIES.length - 1
LastIndex == 3

STRATEGIES == 0..LastIndex

\* The addresses the playlist parser yields (trimmed lines that start with
\* 'http'), over the features the transforms test: a file extension, a query
\* and the transport-stream marker, each present or absent.
Opt(present, t) == IF present THEN <<t>> ELSE <<>>

TransformInputs ==
    { <<scheme, "//host/", "live">> \o Opt(m3u8, ".m3u8") \o Opt(mp4, ".mp4")
          \o Opt(query, "?") \o Opt(ts, "output=ts") :
        scheme \in {"http:", "https:"},
        m3u8 \in BOOLEAN, mp4 \in BOOLEAN, query \in BOOLEAN, ts \in BOOLEAN }

\* the addresses a session is given
Urls == { <<"http:", "//host/", "live">>,
          <<"https:", "//host/", "get", "?", "output=ts">> }

---------------------------------------------------------------------------
(* The strategyIndex initializer (mixed-content guard) *)

\* mutant: the initializer without the mixed-content guard
InitialIndexNoGuard(sec, u) == 0

InitialIndex(sec, u) == IF sec /\ StartsWith(u, "http:") THEN 1 ELSE 0

---------------------------------------------------------------------------
(* The resources owned by one run of the main effect, as a record, so that *)
(* cleanup and effect body compose like the statements of the code.        *)

\* Timer, listener and instance handles never repeat while one is in use; the
\* model hands out the smallest handle not in use.
FreshId(used) == CHOOSE n \in 1..(Cardinality(used) + 1) :
                     n \notin used /\ \A m \in 1..(n - 1) : m \in used

NoCleanup == [kind |-> "none", lis |-> 0]

NoSrc == [mode |-> "NONE", src |-> <<>>, idx |-> -1]

EffectState ==
    [wd   |-> watchdogs,        ref  |-> watchdogTimerRef,
     hls  |-> hlsRef,           live |-> liveHls,
     src  |-> videoSrc,         lis  |-> errListeners,
     kind |-> cleanupKind,      verr |-> videoError,
     grace |-> graceTimers]

\* mutant: the previous interval is not cleared
ClearWatchdogNoop(e) == e

\* if (watchdogTimerRef.current) clearInterval(watchdogTimerRef.current)
ClearWatchdog(e) == [e EXCEPT !.wd = {w \in @ : w.id # e.ref}]

\* hls.destroy(): the instance is dead and its media element detached
HlsDestroy(e, id) ==
    [e EXCEPT !.live = @ \ {id},
              !.src = IF id \in e.live /\ @.mode = "HLS" THEN NoSrc ELSE @]

\* mutant: the reference is dropped without destroying the instance
DestroyRefLeaks(e) == [e EXCEPT !.hls = 0]

\* if (hlsRef.current) { hlsRef.current.destroy(); hlsRef.current = null; }
DestroyRef(e) ==
    IF e.hls = 0 THEN e ELSE [HlsDestroy(e, e.hls) EXCEPT !.hls = 0]

\* the cleanup returned at the end of the effect (HLS branch)
CleanupHls(e) ==
    [DestroyRef(ClearWatchdog(e)) EXCEPT !.src = NoSrc, !.verr = FALSE, !.kind = NoCleanup]

\* mutant: the native cleanup leaves the error listener on the <video>
CleanupNativeKeepsListener(e) == [e EXCEPT !.kind = NoCleanup]

\* the cleanup returned inside the native branch: only the error listener
CleanupNative(e) == [e EXCEPT !.lis = @ \ {e.kind.lis}, !.kind = NoCleanup]

\* the cleanup of the previous effect run
RunCleanup(e) ==
    CASE e.kind.kind = "HLS"    -> CleanupHls(e)
      [] e.kind.kind = "NATIVE" -> CleanupNative(e)
      [] OTHER                  -> e

\* the watchdog section of the effect; loading is the isLoading of the render
StartWatchdog(e, loading) ==
    LET c  == ClearWatchdog(e)
        id == FreshId({w.id : w \in c.wd})
    IN  [c EXCEPT !.wd = @ \cup {[id |-> id, rem |-> WatchdogPeriod, loading |-> loading]},
                  !.ref = id]

\* the load logic of the effect, for strategy i and address u
Attach(e, i, u) ==
    LET d == DestroyRef(e)
        effectiveUrl == StrategyTransform(i, u)
        hls == FreshId(d.live)
        onNativeError == FreshId(d.lis)
    IN  IF StrategyMode(i) = "HLS" /\ hlsSupported
        THEN [d EXCEPT !.hls = hls, !.live = @ \cup {hls},
                       !.src = [mode |-> "HLS", src |-> effectiveUrl, idx |-> i],
                       !.verr = FALSE,
                       !.kind = [kind |-> "HLS", lis |-> 0]]
        ELSE [d EXCEPT !.src = [mode |-> "NATIVE", src |-> effectiveUrl, idx |-> i],
                       !.verr = FALSE,
                       !.lis = @ \cup {onNativeError},
                       !.kind = [kind |-> "NATIVE", lis |-> onNativeError]]

\* one run of the main effect body
Superseded(e) ==
    [e EXCEPT !.grace = [k \in DOMAIN @ |-> [@[k] EXCEPT !.cur = FALSE]]]

EffectBody(e, i, u, loading) ==
    Attach(StartWatchdog(Superseded(e), loading), i, u)

SetEffect(e) ==
    \E r \in {e} :
        /\ watchdogs' = r.wd
        /\ watchdogTimerRef' = r.ref
        /\ hlsRef' = r.hls
        /\ liveHls' = r.live
        /\ videoSrc' = r.src
        /\ errListeners' = r.lis
        /\ videoError' = r.verr
        /\ cleanupKind' = r.kind
        /\ graceTimers' = r.grace

\* the dependency list of the main effect, restricted to what can change
DepsChanged(s) ==
    <<s.url, s.idx, s.rec, s.retry>> # <<url, strategyIndex, isReconnecting, retryCount>>

CurrentState ==
    [idx |-> strategyIndex, retry |-> retryCount, rec |-> isReconnecting,
     url |-> url, err |-> error]

\* Commit the state updates s of one callback, with e the effect resources
\* after the callback's own sink calls; re-run the effect when a dependency
\* changed.
Commit(s, e) ==
    /\ strategyIndex' = s.idx
    /\ retryCount' = s.retry
    /\ isReconnecting' = s.rec
    /\ url' = s.url
    /\ IF DepsChanged(s)
       THEN /\ \E c \in {RunCleanup(e)} :
                   SetEffect(EffectBody(c, s.idx, s.url, isLoading))
            /\ attached' = TRUE
            /\ recovered' = "none"
            /\ error' = Null
            /\ isPlaying' = FALSE
            /\ isLoading' = TRUE
       ELSE /\ SetEffect(e)
            /\ attached' = FALSE
            /\ recovered' = recovered
            /\ error' = s.err
            /\ UNCHANGED <<isPlaying, isLoading>>

---------------------------------------------------------------------------
(* The hosting App (src/App.tsx), the playlist parser                      *)
(* (src/services/m3uParser.ts) and the series grouping                     *)
(* (src/services/dataProcessor.ts).  A text is a sequence of lines, a line *)
(* a sequence of tokens like an address.                                   *)

\* the number of characters of a token
TokenLength(t) ==
    CASE t = "#EXTM3U"                  -> 7
      [] t = "#EXTINF:"                 -> 8
      [] t = "group-title=\"Series\""   -> 20
      [] t = "group-title=\"TV Shows\"" -> 22
      [] t = "group-title=\"Movies\""   -> 20
      [] t = "<!DOCTYPE html>"          -> 15
      [] t = "<html>"                   -> 6
      [] t = "<body>Blocked</body>"     -> 20
      [] t = "</html>"                  -> 7
      [] t = "//host/"                  -> 7
      [] t = "http:"                    -> 5
      [] t = "https:"                   -> 6
      [] t = "S01E01"                   -> 6
      [] t = "S1E02"                    -> 5
      [] t = "S02E01"                   -> 6
      [] t = "2x01"                     -> 4
      [] t = "Show"                     -> 4
      [] t = "Other"                    -> 5
      [] t = "News"                     -> 4
      [] t = "live"                     -> 4
      [] t = ".m3u8"                    -> 5
      [] t = ".mp4"                     -> 4
      [] t = "-1"                       -> 2
      [] OTHER                          -> 1

RECURSIVE LineLength(_)
LineLength(l) == IF l = <<>> THEN 0 ELSE TokenLength(Head(l)) + LineLength(Tail(l))

\* text.length: the characters of the lines and the newlines between them
RECURSIVE TextLength(_)
TextLength(text) ==
    IF text = <<>> THEN 0
    ELSE LineLength(Head(text)) + (IF Len(text) > 1 THEN 1 ELSE 0) + TextLength(Tail(text))

\* text.includes(t)
TextIncludes(text, t) == \E k \in 1..Len(text) : Includes(text[k], t)

\* the shortest text validateContent accepts
MinContentLength == 50

\* mutant: validateContent accepts every response
validateContentAcceptsAll(text) == TRUE

validateContent(text) ==
    IF text = <<>> \/ TextLength(text) < MinContentLength THEN FALSE
    ELSE IF (TextIncludes(text, "<!DOCTYPE html>") \/ TextIncludes(text, "<html>"))
            /\ ~TextIncludes(text, "#EXTM3U")
         THEN FALSE
         ELSE TRUE

\* the sources of fetchPlaylist in the order of the code: the address itself,
\* then the three entries of proxies
Sources == <<"direct", "corsproxy.io", "api.allorigins.win", "api.codetabs.com">>

\* the answer of a source that makes fetchWithTimeout throw
Throws == <<<<"throws">>>>

\* mutant: the proxies are asked before the direct address
fetchPlaylistProxiesFirst(answers) ==
    LET order == <<2, 3, 4, 1>>
        ok(k) == answers[order[k]] # Throws /\ validateContent(answers[order[k]])
    IN  IF \E k \in 1..4 : ok(k)
        THEN LET f == CHOOSE k \in 1..4 : ok(k) /\ \A j \in 1..(k - 1) : ~ok(j)
             IN  [status |-> "returns", text |-> answers[order[f]],
                  requests |-> [j \in 1..f |-> Sources[order[j]]]]
        ELSE [status |-> "throws", text |-> <<>>,
              requests |-> [j \in 1..4 |-> Sources[order[j]]]]

\* fetchPlaylist from source k on, requests being the sources asked so far:
\* the try block of the direct fetch and the loop over the proxies
RECURSIVE fetchFrom(_, _, _)
fetchFrom(answers, k, requests) ==
    IF k > Len(Sources)
    THEN [status |-> "throws", text |-> <<>>, requests |-> requests]
    ELSE LET asked == Append(requests, Sources[k])
         IN  IF answers[k] # Throws /\ validateContent(answers[k])
             THEN [status |-> "returns", text |-> answers[k], requests |-> asked]
             ELSE fetchFrom(answers, k + 1, asked)

fetchPlaylist(answers) == fetchFrom(answers, 1, <<>>)

---------------------------------------------------------------------------
(* parseM3U *)

StartsWithHttp(l) == Len(l) >= 1 /\ l[1] \in {"http:", "https:"}

\* the value of a group-title="..." attribute token, Null for another token
GroupTitle(t) ==
    CASE t = "group-title=\"Series\""   -> "Series"
      [] t = "group-title=\"TV Shows\"" -> "TV Shows"
      [] t = "group-title=\"Movies\""   -> "Movies"
      [] t = "group-title=\"News\""     -> "News"
      [] OTHER                          -> Null

\* info.match(/group-title="([^"]*)"/), or 'Uncategorized'
ExtinfGroup(info) ==
    IF \E i \in 1..Len(info) : GroupTitle(info[i]) # Null
    THEN LET k == CHOOSE i \in 1..Len(info) :
                     GroupTitle(info[i]) # Null
                     /\ \A j \in 1..(i - 1) : GroupTitle(info[j]) = Null
         IN  GroupTitle(info[k])
    ELSE "Uncategorized"

\* parts[parts.length - 1]?.trim() || 'Unknown Channel'
ExtinfName(info) ==
    LET commas == {i \in 1..Len(info) : info[i] = ","}
        from == IF commas = {} THEN 1
                ELSE 1 + CHOOSE i \in commas : \A j \in commas : j <= i
        name == Trim(SubSeq(info, from, Len(info)))
    IN  IF name = <<>> THEN <<"Unknown Channel">> ELSE name

\* the keywords of detectType a group name contains, in lower case
GroupKeywords(group) ==
    CASE group = "Series"   -> {"series"}
      [] group = "TV Shows" -> {"tv show"}
      [] group = "Movies"   -> {"movie"}
      [] OTHER              -> {}

detectType(group, name, address) ==
    IF GroupKeywords(group) \cap {"series", "season", "episodes", "tv show"} # {}
    THEN "SERIES"
    ELSE IF GroupKeywords(group) \cap {"movie", "vod", "film", "cinema", "4k"} # {}
            \/ (Len(address) >= 1 /\ address[Len(address)] \in {".mp4", ".mkv", ".avi"})
         THEN "MOVIE"
         ELSE "LIVE"

\* currentChannel = {}
NoChannel == [id |-> <<>>, name |-> <<>>, group |-> Null]

\* mutant: the pending entry is kept after its address has been taken
PushChannelKeepsPending(pending) == pending

\* currentChannel = {} after channels.push
PushChannelReset(pending) == NoChannel

\* The forEach of parseM3U from line k on.  crypto.randomUUID() yields ids that
\* never repeat: here the line number of the entry with its address, distinct
\* within one parse and equal only for the same entry of the same text.
RECURSIVE ParseLines(_, _, _, _)
ParseLines(lines, k, pending, channels) ==
    IF k > Len(lines) THEN channels
    ELSE LET trimmed == Trim(lines[k])
         IN  IF StartsWith(trimmed, "#EXTINF:")
             THEN ParseLines(lines, k + 1,
                             [id |-> <<k>>,
                              name |-> ExtinfName(Tail(trimmed)),
                              group |-> ExtinfGroup(Tail(trimmed))],
                             channels)
             ELSE IF StartsWithHttp(trimmed) /\ pending.name # <<>>
             THEN ParseLines(lines, k + 1, PushChannelReset(pending),
                             Append(channels,
                                    [id |-> <<pending.id[1], trimmed>>,
                                     name |-> pending.name,
                                     group |-> pending.group, url |-> trimmed,
                                     type |-> detectType(pending.group, pending.name,
                                                         trimmed)]))
             ELSE ParseLines(lines, k + 1, pending, channels)

parseM3U(text) == ParseLines(text, 1, NoChannel, <<>>)

---------------------------------------------------------------------------
(* processSeries *)

\* the digits of the season in a token that matches S(\d+)\s?E(\d+), <<>> for
\* another token
SeasonEpisodeDigits(t) ==
    CASE t = "S01E01" -> <<0, 1>>
      [] t = "S1E02"  -> <<1>>
      [] t = "S02E01" -> <<0, 2>>
      [] OTHER        -> <<>>

\* the digits of the season in a token that matches (\d+)x(\d+)
AltDigits(t) ==
    CASE t = "2x01" -> <<2>>
      [] OTHER      -> <<>>

\* parseInt(digits, 10)
RECURSIVE ParseInt(_)
ParseInt(d) == IF d = <<>> THEN 0 ELSE 10 * ParseInt(SubSeq(d, 1, Len(d) - 1)) + d[Len(d)]

\* what \s?[-_]?\s? takes from the end of the text before the marker: the lazy
\* (.*?) leaves it the longest suffix it can match
SeparatorLength(pre) ==
    LET n == Len(pre)
        sp(i) == i >= 1 /\ pre[i] = " "
        dash(i) == i >= 1 /\ pre[i] \in {"-", "_"}
    IN  IF sp(n) /\ dash(n - 1) /\ sp(n - 2) THEN 3
        ELSE IF (sp(n) /\ dash(n - 1)) \/ (dash(n) /\ sp(n - 1)) \/ (sp(n) /\ sp(n - 1))
             THEN 2
        ELSE IF sp(n) \/ dash(n) THEN 1
        ELSE 0

\* the season digits of a token under SERIES_REGEX or, for alt, under
\* ALT_SERIES_REGEX
MarkerDigits(t, alt) == IF alt THEN AltDigits(t) ELSE SeasonEpisodeDigits(t)

\* name.match(SERIES_REGEX) or, for alt, name.match(ALT_SERIES_REGEX): the
\* first marker of the name; show is match[1] and season is match[2]
SeriesMatch(name, alt) ==
    IF \E i \in 1..Len(name) : MarkerDigits(name[i], alt) # <<>>
    THEN LET k == CHOOSE i \in 1..Len(name) :
                     MarkerDigits(name[i], alt) # <<>>
                     /\ \A j \in 1..(i - 1) : MarkerDigits(name[j], alt) = <<>>
             pre == SubSeq(name, 1, k - 1)
         IN  [found |-> TRUE,
              show |-> SubSeq(pre, 1, Len(pre) - SeparatorLength(pre)),
              season |-> MarkerDigits(name[k], alt)]
    ELSE [found |-> FALSE, show |-> <<>>, season |-> <<>>]

\* .replace(/[-_]$/, '')
DropFinalDash(s) ==
    IF Len(s) >= 1 /\ s[Len(s)] \in {"-", "_"} THEN SubSeq(s, 1, Len(s) - 1) ELSE s

\* showName and season of a channel (the body of the forEach up to seriesId)
SeriesKey(channel) ==
    LET std == SeriesMatch(channel.name, FALSE)
        match == IF std.found THEN std ELSE SeriesMatch(channel.name, TRUE)
    IN  IF match.found
        THEN [showName |-> Trim(DropFinalDash(Trim(match.show))),
              season |-> ParseInt(match.season)]
        ELSE [showName |-> channel.name, season |-> 1]

\* `${channel.group}-${showName}`
SeriesId(channel) == <<channel.group, "-">> \o SeriesKey(channel).showName

\* mutant: episodeCount is counted once per season instead of once per channel
CountEpisodeOncePerSeason(series, season) ==
    IF season \in DOMAIN series.seasons THEN series.episodeCount
    ELSE series.episodeCount + 1

\* series.episodeCount++
CountEpisode(series, season) == series.episodeCount + 1

\* one pass of the forEach: seriesMap is the Map in insertion order
AddEpisode(seriesMap, channel) ==
    LET id == SeriesId(channel)
        season == SeriesKey(channel).season
        known == \E i \in 1..Len(seriesMap) : seriesMap[i].id = id
        map == IF known THEN seriesMap
               ELSE Append(seriesMap,
                           [id |-> id, name |-> SeriesKey(channel).showName,
                            group |-> channel.group,
                            seasons |-> [s \in {} |-> <<>>],
                            episodeCount |-> 0])
        at == CHOOSE i \in 1..Len(map) : map[i].id = id
        series == map[at]
        episodes == IF season \in DOMAIN series.seasons
                    THEN series.seasons[season] ELSE <<>>
    IN  [map EXCEPT ![at] =
            [series EXCEPT
                !.seasons = [s \in DOMAIN series.seasons \cup {season} |->
                                IF s = season THEN Append(episodes, channel)
                                ELSE series.seasons[s]],
                !.episodeCount = CountEpisode(series, season)]]

RECURSIVE ProcessFrom(_, _, _)
ProcessFrom(channels, k, seriesMap) ==
    IF k > Len(channels) THEN seriesMap
    ELSE ProcessFrom(channels, k + 1, AddEpisode(seriesMap, channels[k]))

processSeries(channels) == ProcessFrom(channels, 1, <<>>)

\* channels.filter(c => c.type === 'SERIES') of the Dashboard
SeriesChannels(channels) ==
    LET isSeries(c) == c.type = "SERIES" IN SelectSeq(channels, isSeries)

---------------------------------------------------------------------------
(* The state of App *)

\* [channel, ...filtered].slice(0, 50)
HistoryLimit == 50

\* the delay of the setTimeout in the finally block of the loaders, in
\* time-units
LoadResetDelay == 1

\* bounds of the model: loader calls in flight or awaiting their reset, the
\* replays of a channel that is in the history already, the channels of the
\* long playlist, and the blocks an uploaded file is made of
MaxLoads == 2
MaxReplays == 1
NumChannels == 52
MaxBlocks == 3

\* mutant: the history is not cut
SliceHistoryKeepsAll(h) == h

\* .slice(0, 50)
SliceHistory(h) == SubSeq(h, 1, IF Len(h) < HistoryLimit THEN Len(h) ELSE HistoryLimit)

\* the updater of addToHistory
AddToHistory(prev, channel) ==
    LET other(c) == c.id # channel.id
    IN  SliceHistory(<<channel>> \o SelectSeq(prev, other))

\* DEMO_PLAYLIST, with the last (empty) line of the template string
DEMO_PLAYLIST ==
    << <<"#EXTM3U">>,
       <<"#EXTINF:", "-1", " ", "group-title=\"Movies\"", " ", "tvg-logo", ",",
         "Big Buck Bunny">>,
       <<"http:", "//host/", "BigBuckBunny", ".mp4">>,
       <<"#EXTINF:", "-1", " ", "group-title=\"Movies\"", " ", "tvg-logo", ",", "Sintel">>,
       <<"http:", "//host/", "Sintel", ".mp4">>,
       <<"#EXTINF:", "-1", " ", "group-title=\"Movies\"", " ", "tvg-logo", ",",
         "Tears of Steel">>,
       <<"http:", "//host/", "TearsOfSteel", ".mp4">>,
       <<"#EXTINF:", "-1", " ", "group-title=\"News\"", " ", "tvg-logo", ",", "NASA TV">>,
       <<"https:", "//host/", "master", ".m3u8">>,
       <<>> >>

\* texts a source may answer with: a playlist of two channels, a playlist too
\* short to be accepted, the error page of a blocking server, a playlist
\* wrapped in a page, and a long text without any entry
PlaylistText ==
    << <<"#EXTM3U">>,
       <<"#EXTINF:", "-1", " ", "group-title=\"Series\"", ",", "Show", " ", "S01E01">>,
       <<"http:", "//host/", "a", ".mp4">>,
       <<"#EXTINF:", "-1", ",", "News">>,
       <<"https:", "//host/", "live", ".m3u8">> >>

ShortText ==
    << <<"#EXTM3U">>, <<"#EXTINF:", "-1", ",", "News">>, <<"http:", "//host/", "live">> >>

ErrorPage ==
    << <<"<!DOCTYPE html>">>, <<"<html>">>, <<"<body>Blocked</body>">>, <<"</html>">> >>

WrappedPlaylist == <<<<"<html>">>>> \o PlaylistText

EmptyPlaylist ==
    << <<"#EXTM3U">>, <<"<body>Blocked</body>">>, <<"<body>Blocked</body>">>,
       <<"<body>Blocked</body>">> >>

Responses == {Throws, PlaylistText, ShortText, ErrorPage, WrappedPlaylist}

\* every way the four sources may answer
Networks == [1..4 -> Responses]

\* the networks of an App session: every source fails; the first proxy
\* answers with a playlist; the second proxy answers with a text that holds
\* no entry
AppNetworks ==
    { <<Throws, ErrorPage, Throws, ShortText>>,
      <<ErrorPage, PlaylistText, Throws, Throws>>,
      <<Throws, Throws, EmptyPlaylist, Throws>> }

\* a channel of a cache written by something else than this App: no address
ForeignChannel ==
    [id |-> <<0, <<>>>>, name |-> <<"News">>, group |-> "Uncategorized", url |-> <<>>,
     type |-> "LIVE"]

\* An item of localStorage, like a nullable state, is <<>> when absent (null)
\* and <<value>> when present.
NoStorage == [playlist_config |-> <<>>, nebula_playlist |-> <<>>, watch_history |-> <<>>]

\* what localStorage holds when the App starts: nothing; the config, cache and
\* history of an earlier session; a config without cache (the cache did not
\* fit); an xtream config with an empty cache; a cache with a foreign channel
StoredSessions ==
    { NoStorage,
      [playlist_config |-> <<[type |-> "m3u", url |-> "url"]>>,
       nebula_playlist |-> <<parseM3U(PlaylistText)>>,
       watch_history |-> <<<<parseM3U(PlaylistText)[1]>>>>],
      [playlist_config |-> <<[type |-> "m3u", url |-> "url"]>>,
       nebula_playlist |-> <<>>, watch_history |-> <<>>],
      [playlist_config |-> <<[type |-> "xtream", url |-> "url"]>>,
       nebula_playlist |-> <<<<>>>>, watch_history |-> <<>>],
      [playlist_config |-> <<>>,
       nebula_playlist |-> <<<<ForeignChannel>> \o parseM3U(PlaylistText)>>,
       watch_history |-> <<<<ForeignChannel>>>>] }

\* the state of App after construction, for a localStorage of stored, a
\* network of networks and a file of files in the user's hands
AppInitWith(stored, networks, files) ==
    /\ appMounted = FALSE
    /\ appState = "SETUP"
    /\ playlist = <<>>
    /\ currentChannel = <<>>
    /\ history = <<>>
    /\ appIsLoading = FALSE
    /\ loads = <<>>
    /\ resetTimers = <<>>
    /\ replays = 0
    /\ localStorage \in stored
    /\ net \in networks
    /\ content \in files

\* the App that hosts the player of the playback specifications
AppInit == AppInitWith({NoStorage}, {<<Throws, Throws, Throws, Throws>>}, {<<>>})

---------------------------------------------------------------------------
\* the state before the first render of a player given one of the addresses
InitWith(addresses) ==
    /\ phase = "unmounted"
    /\ url \in addresses
    /\ secure \in BOOLEAN
    /\ hlsSupported \in BOOLEAN
    /\ strategyIndex = 0
    /\ retryCount = 0
    /\ isReconnecting = FALSE
    /\ isLoading = TRUE
    /\ isPlaying = FALSE
    /\ error = Null
    /\ hlsRef = 0
    /\ liveHls = {}
    /\ videoSrc = NoSrc
    /\ videoError = FALSE
    /\ errListeners = {}
    /\ cleanupKind = NoCleanup
    /\ watchdogTimerRef = 0
    /\ watchdogs = {}
    /\ cooldownTimers = <<>>
    /\ graceTimers = <<>>
    /\ attached = FALSE
    /\ recovered = "none"
    /\ lastOp = "init"

Init == InitWith(Urls) /\ AppInit

\* what no callback of the player changes: the page it runs in (protocol,
\* hls.js support) and the state of the hosting App
envVars == <<secure, hlsSupported, appVars>>
effectVars == <<hlsRef, liveHls, videoSrc, videoError, errListeners, cleanupKind,
                watchdogTimerRef, watchdogs, graceTimers>>
sessionVars == <<strategyIndex, retryCount, isReconnecting, url, error>>

\* The remaining times of all pending timers.  A due timer (remaining time 0)
\* fires before time moves on and before the next external event is taken.
AllRems ==
    {w.rem : w \in watchdogs}
    \cup {cooldownTimers[i] : i \in DOMAIN cooldownTimers}
    \cup {graceTimers[i].rem : i \in DOMAIN graceTimers}

NoTimerDue == 0 \notin AllRems

\* First render and first run of the effect
Mount ==
    /\ phase = "unmounted"
    /\ phase' = "mounted"
    /\ strategyIndex' = InitialIndex(secure, url)
    /\ SetEffect(EffectBody(EffectState, InitialIndex(secure, url), url, isLoading))
    /\ attached' = TRUE
    /\ recovered' = "none"
    /\ isLoading' = TRUE
    /\ isPlaying' = FALSE
    /\ error' = Null
    /\ lastOp' = "mount"
    /\ UNCHANGED <<url, retryCount, isReconnecting, envVars, cooldownTimers>>

\* mutant: at the last index the updater wraps to 0 at once, without cooldown
attemptNextStrategyWraps(prev) ==
    IF prev < LastIndex
    THEN [idx |-> prev + 1, cooldown |-> FALSE]
    ELSE [idx |-> 0, cooldown |-> FALSE]

\* mutant: the updater skips a strategy
attemptNextStrategySkips(prev) ==
    IF prev < LastIndex
    THEN [idx |-> IF prev + 2 <= LastIndex THEN prev + 2 ELSE LastIndex,
          cooldown |-> FALSE]
    ELSE [idx |-> prev, cooldown |-> TRUE]

\* mutant: the bound test of the updater off by one
attemptNextStrategyOffByOne(prev) ==
    IF prev <= LastIndex
    THEN [idx |-> prev + 1, cooldown |-> FALSE]
    ELSE [idx |-> prev, cooldown |-> TRUE]

\* The updater passed to setStrategyIndex by attemptNextStrategy
attemptNextStrategy(prev) ==
    IF prev < LastIndex
    THEN [idx |-> prev + 1, cooldown |-> FALSE]
    ELSE [idx |-> prev, cooldown |-> TRUE]

\* attemptNextStrategy as a step, from the effect resources e
Escalate(e) ==
    LET r == attemptNextStrategy(strategyIndex)
    IN  /\ r.cooldown => Len(cooldownTimers) < MaxCooldown
        /\ cooldownTimers' = IF r.cooldown
                             THEN Append(cooldownTimers, CooldownDelay)
                             ELSE cooldownTimers
        /\ Commit([CurrentState EXCEPT !.idx = r.idx,
                                       !.rec = IF r.cooldown THEN TRUE ELSE @], e)

\* mutant: the default case recovers in place too
HlsErrorResponseRecoversAll(type) ==
    CASE type = "network" -> "startLoad"
      [] OTHER            -> "recoverMediaError"

\* mutant: the switch without its NETWORK_ERROR case
HlsErrorResponseNoNetworkCase(type) ==
    CASE type = "media"   -> "recoverMediaError"
      [] OTHER            -> "attemptNextStrategy"

\* the switch of the ERROR handler: what a fatal error of a category leads to
HlsErrorResponse(type) ==
    CASE type = "network" -> "startLoad"
      [] type = "media"   -> "recoverMediaError"
      [] OTHER            -> "attemptNextStrategy"

\* hls.on(Hls.Events.ERROR) with data.fatal
HlsFatalError(type) ==
    /\ phase = "mounted"
    /\ NoTimerDue
    /\ hlsRef \in liveHls
    /\ IF HlsErrorResponse(type) = "attemptNextStrategy"
       THEN /\ lastOp' = "hlsFatalOther"
            /\ Escalate(HlsDestroy(EffectState, hlsRef))
       ELSE /\ lastOp' = HlsErrorResponse(type)
            /\ recovered' = type
            /\ attached' = FALSE
            /\ UNCHANGED <<sessionVars, effectVars, cooldownTimers, isLoading, isPlaying>>
    /\ UNCHANGED <<phase, envVars>>

\* The <video> fires 'error' (at most once per load()); every onNativeError
\* listener on it schedules its 1000 ms timeout
onNativeError ==
    /\ phase = "mounted"
    /\ NoTimerDue
    /\ videoSrc.mode = "NATIVE"
    /\ ~videoError
    /\ Len(graceTimers) + Cardinality(errListeners) <= MaxGrace
    \* every grace timer may end in a cooldown timer and a retry: room is kept
    \* for them, so that a due timer is never held back by a bound
    /\ Len(cooldownTimers) + Len(graceTimers) + Cardinality(errListeners) <= MaxCooldown
    /\ retryCount + Len(cooldownTimers) + Len(graceTimers) + Cardinality(errListeners)
           <= MaxRetry
    /\ SetEffect([EffectState EXCEPT
            !.verr = TRUE,
            !.grace = @ \o [k \in 1..Cardinality(errListeners) |->
                               [rem |-> GraceDelay, cur |-> TRUE]]])
    /\ lastOp' = "nativeError"
    /\ attached' = FALSE
    /\ recovered' = recovered
    /\ UNCHANGED <<phase, envVars, sessionVars, cooldownTimers, isLoading, isPlaying>>

\* the 1000 ms timeout of onNativeError fires
GraceExpiry ==
    /\ graceTimers # <<>>
    /\ Head(graceTimers).rem = 0
    /\ lastOp' = "graceExpiry"
    /\ IF phase = "mounted"
       THEN Escalate([EffectState EXCEPT !.grace = Tail(@)])
       ELSE /\ graceTimers' = Tail(graceTimers)
            /\ attached' = FALSE
            /\ recovered' = recovered
            /\ UNCHANGED <<sessionVars, hlsRef, liveHls, videoSrc, videoError,
                           errListeners, cleanupKind, watchdogTimerRef, watchdogs,
                           cooldownTimers, isLoading, isPlaying>>
    /\ UNCHANGED <<phase, envVars>>

\* mutant: the timeout restarts at the index of the mixed-content guard
CooldownResetToInitial(s) ==
    [s EXCEPT !.idx = InitialIndex(secure, s.url), !.retry = @ + 1, !.rec = FALSE]

\* mutant: the timeout does not count the retry
CooldownResetNoIncrement(s) == [s EXCEPT !.idx = 0, !.rec = FALSE]

\* mutant: the timeout does not reset the strategy
CooldownResetKeepsIndex(s) == [s EXCEPT !.retry = @ + 1, !.rec = FALSE]

\* the body of the 3000 ms timeout of attemptNextStrategy
CooldownReset(s) == [s EXCEPT !.idx = 0, !.retry = @ + 1, !.rec = FALSE]

CooldownExpiry ==
    /\ cooldownTimers # <<>>
    /\ Head(cooldownTimers) = 0
    /\ cooldownTimers' = Tail(cooldownTimers)
    /\ lastOp' = "cooldownExpiry"
    /\ IF phase = "mounted"
       THEN /\ retryCount < MaxRetry
            /\ Commit(CooldownReset(CurrentState), EffectState)
       ELSE /\ attached' = FALSE
            /\ UNCHANGED <<sessionVars, effectVars, isLoading, isPlaying, recovered>>
    /\ UNCHANGED <<phase, envVars>>

\* handleStall: the nudge needs the <video> and an Hls instance
handleStall == IF phase = "mounted" /\ hlsRef # 0 THEN "nudge" ELSE "stallIgnored"

\* the test of the interval callback; paused and ready (readyState >= 3) are
\* read from the sink, loading is the isLoading the callback closed over
StallDetected(paused, ready, loading) == ~paused /\ ~ready /\ loading

\* mutant: a detected stall escalates instead of nudging
WatchdogTickEscalating ==
    /\ \E w \in watchdogs :
          /\ w.rem = 0
          /\ \E paused \in BOOLEAN, ready \in BOOLEAN :
                IF StallDetected(paused, ready, w.loading) /\ phase = "mounted"
                THEN /\ lastOp' = "nudge"
                     /\ Escalate([EffectState EXCEPT
                            !.wd = (@ \ {w}) \cup {[w EXCEPT !.rem = WatchdogPeriod]}])
                ELSE /\ lastOp' = "watchdogIdle"
                     /\ watchdogs' = (watchdogs \ {w}) \cup {[w EXCEPT !.rem = WatchdogPeriod]}
                     /\ attached' = FALSE
                     /\ UNCHANGED <<sessionVars, hlsRef, liveHls, videoSrc, videoError,
                                    errListeners, cleanupKind, watchdogTimerRef,
                                    graceTimers, cooldownTimers, isLoading, isPlaying,
                                    recovered>>
    /\ UNCHANGED <<phase, envVars>>

\* one tick of a watchdog interval
WatchdogTick ==
    /\ \E w \in watchdogs :
          /\ w.rem = 0
          /\ watchdogs' = (watchdogs \ {w}) \cup {[w EXCEPT !.rem = WatchdogPeriod]}
          /\ \E paused \in BOOLEAN, ready \in BOOLEAN :
                lastOp' = IF StallDetected(paused, ready, w.loading)
                          THEN handleStall
                          ELSE "watchdogIdle"
    /\ attached' = FALSE
    /\ UNCHANGED <<phase, envVars, sessionVars, hlsRef, liveHls, videoSrc, videoError,
                   errListeners, cleanupKind, watchdogTimerRef, graceTimers,
                   cooldownTimers, isLoading, isPlaying, recovered>>

\* mutant: forceRetry keeps the retry counter
ForceRetryStateKeepsCount(s) == [s EXCEPT !.err = Null, !.rec = TRUE, !.idx = 0]

\* mutant: forceRetry reports a failure instead of clearing it
ForceRetryStateSetsError(s) ==
    [s EXCEPT !.err = "failed", !.retry = 0, !.rec = TRUE, !.idx = 0]

\* forceRetry
ForceRetryState(s) == [s EXCEPT !.err = Null, !.retry = 0, !.rec = TRUE, !.idx = 0]

forceRetry ==
    /\ phase = "mounted"
    /\ NoTimerDue
    /\ lastOp' = "forceRetry"
    /\ Commit(ForceRetryState(CurrentState), EffectState)
    /\ UNCHANGED <<phase, envVars, cooldownTimers>>

\* the parent renders the mounted player with another url
UrlChange ==
    /\ phase = "mounted"
    /\ NoTimerDue
    /\ \E u \in Urls \ {url} : Commit([CurrentState EXCEPT !.url = u], EffectState)
    /\ lastOp' = "urlChange"
    /\ UNCHANGED <<phase, envVars, cooldownTimers>>

\* the hosting view is torn down: the last effect's cleanup runs and the
\* component's state is discarded with the instance (it reads as initialised)
Unmount ==
    /\ phase = "mounted"
    /\ NoTimerDue
    /\ phase' = "destroyed"
    /\ SetEffect(RunCleanup(EffectState))
    /\ lastOp' = "unmount"
    /\ attached' = FALSE
    /\ recovered' = "none"
    /\ strategyIndex' = 0
    /\ retryCount' = 0
    /\ isReconnecting' = FALSE
    /\ isLoading' = TRUE
    /\ isPlaying' = FALSE
    /\ UNCHANGED <<envVars, url, error, cooldownTimers>>

\* lifecycle signals of the <video> element and of hls.js; 'play' and
\* 'playing' are the signals that report playback
Lifecycle(loading, playing, reportsPlayback) ==
    /\ phase = "mounted"
    /\ NoTimerDue
    /\ isLoading' = loading
    /\ isPlaying' = playing
    /\ attached' = FALSE
    /\ recovered' = IF reportsPlayback THEN "none" ELSE recovered
    /\ UNCHANGED <<phase, envVars, sessionVars, effectVars, cooldownTimers, lastOp>>

onPlayEvent == Lifecycle(FALSE, TRUE, TRUE)
onPauseEvent == Lifecycle(isLoading, FALSE, FALSE)
\* mutant: a buffering signal escalates
onWaitingEscalates ==
    /\ phase = "mounted"
    /\ NoTimerDue
    /\ Escalate(EffectState)
    /\ UNCHANGED <<phase, envVars, lastOp>>

onWaiting == Lifecycle(TRUE, isPlaying, FALSE)
onPlaying == Lifecycle(FALSE, isPlaying, TRUE)
onManifestParsed == hlsRef \in liveHls /\ Lifecycle(FALSE, isPlaying, FALSE)

\* one time-unit passes
Tick ==
    /\ AllRems # {}
    /\ NoTimerDue
    /\ watchdogs' = {[w EXCEPT !.rem = @ - 1] : w \in watchdogs}
    /\ cooldownTimers' = [i \in DOMAIN cooldownTimers |-> cooldownTimers[i] - 1]
    /\ graceTimers' = [i \in DOMAIN graceTimers |-> [graceTimers[i] EXCEPT !.rem = @ - 1]]
    /\ attached' = FALSE
    /\ UNCHANGED <<lastOp, recovered>>
    /\ UNCHANGED <<phase, envVars, sessionVars, hlsRef, liveHls, videoSrc, videoError,
                   errListeners, cleanupKind, watchdogTimerRef, isLoading, isPlaying>>

Next ==
    \/ Mount
    \/ \E type \in {"network", "media", "other"} : HlsFatalError(type)
    \/ onNativeError
    \/ GraceExpiry
    \/ CooldownExpiry
    \/ WatchdogTick
    \/ forceRetry
    \/ UrlChange
    \/ Unmount
    \/ onPlayEvent
    \/ onPauseEvent
    \/ onWaiting
    \/ onPlaying
    \/ onManifestParsed
    \/ Tick

Spec == Init /\ [][Next]_vars

\* The timers of the runtime fire when they are due and time passes.
TimersFire ==
    /\ WF_vars(Tick)
    /\ WF_vars(GraceExpiry)
    /\ WF_vars(CooldownExpiry)
    /\ WF_vars(WatchdogTick)

\* The progress properties are checked for a player on an http page that
\* keeps its address, with the sink signals that bear on them.
InitLive == Init /\ ~secure /\ StartsWith(url, "http:")

NextLive ==
    \/ Mount
    \/ \E type \in {"network", "media", "other"} : HlsFatalError(type)
    \/ onNativeError
    \/ GraceExpiry
    \/ CooldownExpiry
    \/ WatchdogTick
    \/ forceRetry
    \/ Unmount
    \/ onPlaying
    \/ Tick

SpecLive == InitLive /\ [][NextLive]_vars /\ TimersFire

\* A sink that keeps failing: besides the timers, fatal network or media
\* errors keep arriving as long as an Hls instance is attached.
SpecFailing ==
    SpecLive /\ SF_vars(\E type \in {"network", "media"} : HlsFatalError(type))

\* Scenario A of the specification: a session that starts at strategy 0 and
\* whose every attach fails with an unrecoverable error (an 'other' fatal error
\* on the adaptive path, a decode error on the native path); only the timers
\* run besides.
InitScenarioA == Init /\ InitialIndex(secure, url) = 0

NextScenarioA ==
    \/ Mount
    \/ HlsFatalError("other")
    \/ onNativeError
    \/ GraceExpiry
    \/ CooldownExpiry
    \/ WatchdogTick
    \/ Tick

SpecScenarioA == InitScenarioA /\ [][NextScenarioA]_vars

\* The strategies applied, one after the other, to each address of
\* TransformInputs: the escalation chain of a player whose attaches all fail.
InitTransforms == InitWith(TransformInputs) /\ AppInit /\ ~secure /\ hlsSupported

SpecTransforms == InitTransforms /\ [][NextScenarioA]_vars

---------------------------------------------------------------------------
(* The handlers of App.  The loaders are asynchronous: a call is in flight *)
(* from its setIsLoading(true) to its finally block, and other handlers    *)
(* run while it awaits.                                                    *)

\* a due reset timer fires before time moves on and before the next event
NoResetDue == \A i \in DOMAIN resetTimers : resetTimers[i] > 0

Remove(s, i) == SubSeq(s, 1, i - 1) \o SubSeq(s, i + 1, Len(s))

\* processLoadedPlaylist for a non-empty list, with room in localStorage for
\* the cache
processLoadedPlaylist(channels, config) ==
    /\ playlist' = channels
    /\ appState' = "DASHBOARD"
    /\ localStorage' = [localStorage EXCEPT !.playlist_config = <<config>>,
                                            !.nebula_playlist = <<channels>>]

\* loadM3uUrl / loadXtreamConnection up to the await of fetchPlaylist
StartLoad(kind) ==
    /\ Len(loads) + Len(resetTimers) < MaxLoads
    /\ appIsLoading' = TRUE
    /\ loads' = Append(loads, [kind |-> kind, pc |-> "fetch", requests |-> <<>>,
                                text |-> <<>>])

\* the two effects of the first render: the history is read, then init
AppMount ==
    /\ ~appMounted
    /\ appMounted' = TRUE
    /\ history' = IF localStorage.watch_history # <<>>
                  THEN localStorage.watch_history[1] ELSE history
    /\ IF localStorage.nebula_playlist # <<>> /\ localStorage.nebula_playlist[1] # <<>>
       THEN /\ playlist' = localStorage.nebula_playlist[1]
            /\ appState' = "DASHBOARD"
            /\ UNCHANGED <<appIsLoading, loads>>
       ELSE /\ IF localStorage.playlist_config # <<>>
               THEN StartLoad(localStorage.playlist_config[1].type)
               ELSE UNCHANGED <<appIsLoading, loads>>
            /\ UNCHANGED <<playlist, appState>>
    /\ UNCHANGED <<currentChannel, resetTimers, replays, localStorage, net, content>>
    /\ UNCHANGED playerVars

\* the Load button or Enter in the address field, with an address typed in
handleM3uUrlLoad ==
    /\ appMounted
    /\ appState = "SETUP"
    /\ NoResetDue
    /\ StartLoad("m3u")
    /\ UNCHANGED <<appMounted, appState, playlist, currentChannel, history, resetTimers,
                   replays, localStorage, net, content>>
    /\ UNCHANGED playerVars

\* the Connect button or Enter in the password field, with all fields filled in
handleXtreamLogin ==
    /\ appMounted
    /\ appState = "SETUP"
    /\ NoResetDue
    /\ StartLoad("xtream")
    /\ UNCHANGED <<appMounted, appState, playlist, currentChannel, history, resetTimers,
                   replays, localStorage, net, content>>
    /\ UNCHANGED playerVars

\* the catch and finally blocks of a loader
LoadFailed(i) ==
    /\ appState' = "SETUP"
    /\ loads' = Remove(loads, i)
    /\ resetTimers' = Append(resetTimers, LoadResetDelay)
    /\ UNCHANGED <<playlist, localStorage>>

\* fetchPlaylist of a call in flight settles
FetchDone ==
    /\ NoResetDue
    /\ \E i \in DOMAIN loads :
          /\ loads[i].pc = "fetch"
          /\ \E r \in {fetchPlaylist(net)} :
                IF r.status = "returns"
                THEN /\ loads' = [loads EXCEPT ![i] = [@ EXCEPT !.pc = "prepare",
                                                                !.requests = r.requests,
                                                                !.text = r.text]]
                     /\ UNCHANGED <<appState, playlist, localStorage, resetTimers>>
                ELSE LoadFailed(i)
    /\ UNCHANGED <<appMounted, currentChannel, history, appIsLoading, replays, net, content>>
    /\ UNCHANGED playerVars

\* the rest of the try block (parseM3U, processLoadedPlaylist) and the
\* finally block
FinishLoad ==
    /\ NoResetDue
    /\ \E i \in DOMAIN loads :
          /\ loads[i].pc = "prepare"
          /\ \E channels \in {parseM3U(loads[i].text)} :
                IF channels # <<>>
                THEN /\ processLoadedPlaylist(channels,
                                              [type |-> loads[i].kind, url |-> "url"])
                     /\ loads' = Remove(loads, i)
                     /\ resetTimers' = Append(resetTimers, LoadResetDelay)
                ELSE LoadFailed(i)
    /\ UNCHANGED <<appMounted, currentChannel, history, appIsLoading, replays, net, content>>
    /\ UNCHANGED playerVars

\* the timeout of a finally block fires
ResetExpiry ==
    /\ resetTimers # <<>>
    /\ Head(resetTimers) = 0
    /\ resetTimers' = Tail(resetTimers)
    /\ appIsLoading' = FALSE
    /\ UNCHANGED <<appMounted, appState, playlist, currentChannel, history, loads,
                   replays, localStorage, net, content>>
    /\ UNCHANGED playerVars

\* one time-unit passes for the timers of App
AppTick ==
    /\ resetTimers # <<>>
    /\ NoResetDue
    /\ resetTimers' = [i \in DOMAIN resetTimers |-> resetTimers[i] - 1]
    /\ UNCHANGED <<appMounted, appState, playlist, currentChannel, history, appIsLoading,
                   loads, replays, localStorage, net, content>>
    /\ UNCHANGED playerVars

\* the file input: reader.onload with the text of the file; for a file
\* without entries processLoadedPlaylist throws and nothing is set
handleFileUpload ==
    /\ appMounted
    /\ appState = "SETUP"
    /\ NoResetDue
    /\ parseM3U(content) # <<>>
    /\ processLoadedPlaylist(parseM3U(content), [type |-> "m3u", url |-> "local_file"])
    /\ UNCHANGED <<appMounted, currentChannel, history, appIsLoading, loads, resetTimers,
                   replays, net, content>>
    /\ UNCHANGED playerVars

loadDemo ==
    /\ appMounted
    /\ appState = "SETUP"
    /\ NoResetDue
    /\ processLoadedPlaylist(parseM3U(DEMO_PLAYLIST), [type |-> "m3u", url |-> "demo"])
    /\ UNCHANGED <<appMounted, currentChannel, history, appIsLoading, loads, resetTimers,
                   replays, net, content>>
    /\ UNCHANGED playerVars

\* mutant: startPlaying without the test of the address
HasUrlAlways(channel) == TRUE

\* !channel.url is false
HasUrl(channel) == channel.url # <<>>

\* startPlaying, from the Dashboard or the channel list of the player view
startPlaying(channel) ==
    /\ appMounted
    /\ appState \in {"DASHBOARD", "PLAYER"}
    /\ NoResetDue
    /\ IF ~HasUrl(channel)
       THEN UNCHANGED <<currentChannel, history, appState, localStorage, replays>>
       ELSE /\ \E replay \in {\E i \in DOMAIN history : history[i].id = channel.id} :
                  /\ replay => replays < MaxReplays
                  /\ replays' = IF replay THEN replays + 1 ELSE replays
            /\ currentChannel' = <<channel>>
            /\ history' = AddToHistory(history, channel)
            /\ localStorage' = [localStorage EXCEPT
                                   !.watch_history = <<AddToHistory(history, channel)>>]
            /\ appState' = "PLAYER"
    /\ UNCHANGED <<appMounted, playlist, appIsLoading, loads, resetTimers, net, content>>
    /\ UNCHANGED playerVars

backToDashboard ==
    /\ appMounted
    /\ appState = "PLAYER"
    /\ NoResetDue
    /\ appState' = "DASHBOARD"
    /\ UNCHANGED <<appMounted, playlist, currentChannel, history, appIsLoading, loads,
                   resetTimers, replays, localStorage, net, content>>
    /\ UNCHANGED playerVars

handleLogout ==
    /\ appMounted
    /\ appState = "DASHBOARD"
    /\ NoResetDue
    /\ appState' = "SETUP"
    /\ UNCHANGED <<appMounted, playlist, currentChannel, history, appIsLoading, loads,
                   resetTimers, replays, localStorage, net, content>>
    /\ UNCHANGED playerVars

---------------------------------------------------------------------------
(* Specifications of the App.  The player is not rendered in them: its     *)
(* variables keep the values of a player that was never mounted.           *)

PlayerIdle == InitWith({<<"http:", "//host/", "live">>}) /\ ~secure /\ hlsSupported

\* the channels the views offer for playing that the sessions choose from: the
\* first channel of the playlist and the oldest of the history
Offered ==
    {playlist[i] : i \in {1} \cap DOMAIN playlist}
    \cup {history[i] : i \in {Len(history)} \cap DOMAIN history}

\* An App session: any stored state of an earlier session, a network of
\* AppNetworks and a short playlist file at hand.
InitApp == PlayerIdle /\ AppInitWith(StoredSessions, AppNetworks, {ShortText})

NextApp ==
    \/ AppMount
    \/ handleM3uUrlLoad
    \/ handleXtreamLogin
    \/ FetchDone
    \/ FinishLoad
    \/ ResetExpiry
    \/ AppTick
    \/ handleFileUpload
    \/ loadDemo
    \/ \E channel \in Offered : startPlaying(channel)
    \/ backToDashboard
    \/ handleLogout

SpecApp == InitApp /\ [][NextApp]_vars

\* fetchPlaylist over every network: the loaders of a first session
InitFetch == PlayerIdle /\ AppInitWith({NoStorage}, Networks, {<<>>})

NextFetch ==
    \/ AppMount
    \/ handleM3uUrlLoad
    \/ handleXtreamLogin
    \/ FetchDone
    \/ FinishLoad
    \/ ResetExpiry
    \/ AppTick

SpecFetch == InitFetch /\ [][NextFetch]_vars

\* The files parseM3U is applied to: up to MaxBlocks blocks, each an entry
\* with its address or one of the irregular shapes a file may hold.
Extinf(group, name) == <<"#EXTINF:", "-1">> \o group \o <<",">> \o name

Blocks ==
    { << Extinf(<<" ", "group-title=\"Series\"">>, <<"Show", " ", "S01E01">>),
         <<"http:", "//host/", "a", ".mp4">> >>,
      << Extinf(<<" ", "group-title=\"Series\"">>, <<"Show", " ", "-", " ", "S1E02">>),
         <<"http:", "//host/", "b", ".mp4">> >>,
      << Extinf(<<" ", "group-title=\"Series\"">>, <<"Show", " ", "2x01">>),
         <<"http:", "//host/", "c", ".mp4">> >>,
      << Extinf(<<" ", "group-title=\"TV Shows\"">>, <<"Other">>),
         <<"http:", "//host/", "d">> >>,
      << Extinf(<<>>, <<"News">>), <<"https:", "//host/", "live", ".m3u8">> >>,
      << Extinf(<<" ", "group-title=\"Series\"">>, <<"Show", " ", "S02E01">>) >>,
      << <<"http:", "//host/", "e">> >>,
      << <<" ">> \o Extinf(<<" ", "group-title=\"Series\"">>, <<" ">>),
         <<"#EXTVLCOPT">>,
         <<" ", "http:", "//host/", "f", " ">> >>,
      << <<"#EXTM3U">> >> }

RECURSIVE FilesOf(_)
FilesOf(n) ==
    IF n = 0 THEN {<<>>}
    ELSE FilesOf(n - 1) \cup {f \o b : f \in FilesOf(n - 1), b \in Blocks}

ParseInputs == FilesOf(MaxBlocks)

InitParse ==
    PlayerIdle /\ AppInitWith({NoStorage}, {<<Throws, Throws, Throws, Throws>>}, ParseInputs)

NextParse ==
    \/ AppMount
    \/ handleFileUpload

SpecParse == InitParse /\ [][NextParse]_vars

\* A long playlist and the session that plays it from an empty history: the
\* next channel never played, or again the one played before the current one
\* or the oldest of the history.
LongPlaylist ==
    [i \in 1..NumChannels |->
        [id |-> <<2 * i, <<"http:", "//host/", "live">>>>, name |-> <<"News">>,
         group |-> "Uncategorized", url |-> <<"http:", "//host/", "live">>,
         type |-> "LIVE"]]

InitHistory ==
    /\ PlayerIdle
    /\ appMounted = TRUE
    /\ appState = "DASHBOARD"
    /\ playlist = LongPlaylist
    /\ currentChannel = <<>>
    /\ history = <<>>
    /\ appIsLoading = FALSE
    /\ loads = <<>>
    /\ resetTimers = <<>>
    /\ replays = 0
    /\ localStorage = [playlist_config |-> <<[type |-> "m3u", url |-> "local_file"]>>,
                       nebula_playlist |-> <<>>, watch_history |-> <<>>]
    /\ net = <<Throws, Throws, Throws, Throws>>
    /\ content = <<>>

\* the place in the playlist after the last one played so far
NextNew ==
    1 + Cardinality({i \in DOMAIN playlist :
                        \E j \in DOMAIN history : playlist[i].id[1] <= history[j].id[1]})

HistoryPicks ==
    {playlist[i] : i \in {NextNew} \cap DOMAIN playlist}
    \cup {history[i] : i \in {2, Len(history)} \cap DOMAIN history}

NextHistory == \E channel \in HistoryPicks : startPlaying(channel)

SpecHistory == InitHistory /\ [][NextHistory]_vars

---------------------------------------------------------------------------
(* Properties *)

\* C1: strategyIndex is a valid index of STRATEGIES (0..3) in every reachable
\* state, and the updater of attemptNextStrategy never yields an index past
\* the last entry.
C1_StrategyIndexValid ==
    /\ strategyIndex \in 0..3
    /\ attemptNextStrategy(strategyIndex).idx \in 0..3

\* C1 witness: an escalation at the last index has happened and the index
\* stayed at the last entry.
C1_Witness ==
    /\ lastOp = "graceExpiry"
    /\ strategyIndex = 3
    /\ isReconnecting
    /\ cooldownTimers # <<>>

\* C2: each exhaustion of the catalog increments retryCount by exactly 1: when
\* a cooldown expiry increments retryCount, no further cooldown reset is left
\* scheduled that would increment it again for the same exhaustion.
C2_OneIncrementPerExhaustion ==
    [][retryCount' = retryCount + 1 => cooldownTimers' = <<>>]_vars

\* C3: once an in-place recovery for a fatal network or media error has been
\* invoked on the attached attempt and the sink has not reported playing
\* since, a further fatal error of that category is answered by an escalation
\* (attemptNextStrategy), not by another in-place recovery.
C3_RecurrenceEscalates ==
    (phase = "mounted" /\ hlsRef \in liveHls /\ recovered # "none")
        => HlsErrorResponse(recovered) = "attemptNextStrategy"

\* C4: a fatal network or media error answered by the in-place recovery call,
\* and a playing signal that follows it, leave strategyIndex, retryCount and
\* isReconnecting unchanged and neither detach nor re-create the sink.
C4_RecoveryKeepsAttempt ==
    [][((\E type \in {"network", "media"} : HlsFatalError(type))
          \/ (recovered # "none" /\ (onPlaying \/ onPlayEvent)))
        => /\ UNCHANGED <<strategyIndex, retryCount, isReconnecting>>
           /\ UNCHANGED <<hlsRef, liveHls, videoSrc>>
           /\ ~attached']_vars

\* C4 witness: the last controller operation was an in-place recovery and the
\* same Hls instance has reported playing after it.
C4_Witness ==
    /\ phase = "mounted"
    /\ lastOp \in {"startLoad", "recoverMediaError"}
    /\ recovered = "none"
    /\ ~isLoading
    /\ hlsRef \in liveHls

\* C5: in scenario A the attaches visit the strategies 0, 1, 2, 3 in that
\* order, each once; the attach after the one at strategy 3 is made by the
\* cooldown expiry, at strategy 0, with retryCount incremented (to 1).
C5_ScenarioAOrder ==
    [][attached' =>
          IF phase = "unmounted" THEN strategyIndex' = 0 /\ retryCount' = 0
          ELSE IF strategyIndex < 3 THEN strategyIndex' = strategyIndex + 1
          ELSE /\ strategyIndex' = 0
               /\ lastOp' = "cooldownExpiry"
               /\ retryCount' = retryCount + 1]_vars

\* C6: until an operation after the mount changes the session, the attached
\* strategy is 1 (Gateway 1) when the page is served over https and the url
\* starts with 'http:', and 0 otherwise.
C6_MixedOriginGuard ==
    lastOp = "mount" =>
        /\ strategyIndex = (IF secure /\ StartsWith(url, "http:") THEN 1 ELSE 0)
        /\ videoSrc.idx = strategyIndex
        /\ (secure /\ StartsWith(url, "http:"))
               => videoSrc.src[1] = "https://corsproxy.io/?"

\* C6 witness: a session mounted on an https page with an http: address.
C6_Witness ==
    /\ lastOp = "mount"
    /\ attached
    /\ secure
    /\ StartsWith(url, "http:")
    /\ videoSrc.idx = 1

\* C7: a watchdog tick, with or without the nudge of handleStall, leaves
\* strategyIndex, retryCount and isReconnecting unchanged and neither detaches
\* nor re-attaches the sink.
C7_NudgeKeepsSession ==
    [][WatchdogTick
        => /\ UNCHANGED <<strategyIndex, retryCount, isReconnecting>>
           /\ UNCHANGED <<hlsRef, liveHls, videoSrc>>
           /\ ~attached']_vars

\* C7 witness: a nudge has just been performed on an attached Hls instance.
C7_Witness ==
    /\ phase = "mounted"
    /\ lastOp = "nudge"
    /\ hlsRef \in liveHls

\* C8: forceRetry cancels the pending cooldown timers: after it none of the
\* timers scheduled before it is still pending.
C8_ForceRetryCancelsCooldown ==
    [][forceRetry => cooldownTimers' = <<>>]_vars

\* C9: destroying a session (a change of the url, or the unmount) cancels its
\* watchdog, its pending cooldown timers and its pending grace timers and
\* detaches the sink, on the adaptive path and on the native path.
C9_DestroyCancelsTimers ==
    [][/\ (Unmount \/ UrlChange) => cooldownTimers' = <<>> /\ graceTimers' = <<>>
       /\ Unmount => watchdogs' = {} /\ liveHls' = {} /\ videoSrc' = NoSrc
       /\ UrlChange => Cardinality(watchdogs') = 1]_vars

\* C10: a change of the url attaches the new address at the initial index:
\* 0, or 1 when the mixed-origin guard applies to the new address.
C10_TargetChangeStartsAtInitialIndex ==
    [][UrlChange =>
          LET i0 == IF secure' /\ StartsWith(url', "http:") THEN 1 ELSE 0
          IN  attached' /\ strategyIndex' = i0 /\ videoSrc'.idx = i0]_vars

\* a timer that is due is never held back by a bound of the model
TimersNeverBlocked ==
    /\ (cooldownTimers # <<>> /\ phase = "mounted") => retryCount < MaxRetry
    /\ (graceTimers # <<>> /\ phase = "mounted" /\ strategyIndex = LastIndex)
           => Len(cooldownTimers) < MaxCooldown

\* C13: from every state in which the catalog has been exhausted (a cooldown
\* timer is pending for the mounted player) a new attach at strategy 0
\* eventually happens, unless the player is torn down first.
C13_ExhaustionRestarts ==
    (phase = "mounted" /\ cooldownTimers # <<>>)
        ~> ((attached /\ strategyIndex = 0 /\ videoSrc.idx = 0) \/ phase = "destroyed")

\* C13 witness: the restart after an exhaustion, made by the cooldown expiry.
C13_Witness ==
    /\ phase = "mounted"
    /\ lastOp = "cooldownExpiry"
    /\ attached
    /\ videoSrc.idx = 0
    /\ retryCount >= 1

\* C11: a grace timer scheduled by an attempt that has been superseded by a
\* later attach neither changes strategyIndex or isReconnecting nor starts a
\* cooldown when it fires.
C11_NoStaleEscalation ==
    [][(GraceExpiry /\ phase = "mounted" /\ ~Head(graceTimers).cur)
        => UNCHANGED <<strategyIndex, isReconnecting, cooldownTimers>>]_vars

\* C12: at most one Hls instance is alive, it is the one hlsRef refers to, and
\* the <video> plays at most the attempt of the current strategy.
C12_OneSinkInstance ==
    /\ Cardinality(liveHls) <= 1
    /\ liveHls \subseteq {hlsRef}
    /\ videoSrc.mode = "HLS" => hlsRef \in liveHls
    /\ phase = "mounted" => videoSrc.idx \in {-1, strategyIndex}

\* C12 witness: a switch from one Hls attempt to the next one has happened.
C12_Witness ==
    /\ lastOp = "hlsFatalOther"
    /\ attached
    /\ strategyIndex = 2
    /\ liveHls = {hlsRef}

\* C14: an attempt on which an in-place recovery has been invoked and that
\* keeps failing does not stay attached forever: eventually it reports playing
\* or it is replaced by an escalation (the next strategy, or the cooldown and
\* its restart), unless the player is torn down.
C14_FailingAttemptEscalates ==
    (phase = "mounted" /\ recovered # "none")
        ~> (recovered = "none" \/ phase # "mounted")

\* C15: the error state is null in every reachable state; after an exhausted
\* catalog the failure shows only as isReconnecting and retryCount.
C15_ErrorAlwaysNull == error = Null

\* C15 witness: the catalog has been exhausted for the second time.
C15_Witness ==
    /\ phase = "mounted"
    /\ isReconnecting
    /\ retryCount >= 1
    /\ cooldownTimers # <<>>
    /\ error = Null

\* C16: for the mounted player isReconnecting is true exactly while a cooldown
\* timer is pending or a forced reset is in progress: it is true while a
\* cooldown timer is pending, and it is false once the sink plays with no
\* cooldown timer pending (no reset is in progress then).
C16_ReconnectingExact ==
    phase = "mounted" =>
        /\ cooldownTimers # <<>> => isReconnecting
        /\ (isPlaying /\ ~isLoading /\ cooldownTimers = <<>>) => ~isReconnecting

\* an escalation: attemptNextStrategy called by the grace timeout of a native
\* error or by the ERROR handler of hls.js
EscalationStep == phase = "mounted" /\ (GraceExpiry \/ HlsFatalError("other"))

\* C17: an escalation at the last index (3) sets isReconnecting, leaves
\* strategyIndex and retryCount unchanged and schedules one cooldown timer of
\* 3 time-units; the player stays mounted with no error reported.
C17_LastIndexEntersCooldown ==
    [][(EscalationStep /\ strategyIndex = 3)
        => /\ isReconnecting'
           /\ UNCHANGED <<strategyIndex, retryCount>>
           /\ cooldownTimers' = Append(cooldownTimers, 3)
           /\ phase' = "mounted"
           /\ error' = Null]_vars

\* C17 witness: the catalog exhausted in its second cycle, one cooldown pending.
C17_Witness ==
    /\ lastOp = "graceExpiry"
    /\ strategyIndex = 3
    /\ isReconnecting
    /\ retryCount = 1
    /\ cooldownTimers = <<3>>

\* C18: an escalation at an index i below the last one sets strategyIndex to
\* i + 1 and leaves retryCount and isReconnecting unchanged; it schedules no
\* cooldown.
C18_EscalationAdvancesByOne ==
    [][(EscalationStep /\ strategyIndex < 3)
        => /\ strategyIndex' = strategyIndex + 1
           /\ UNCHANGED <<retryCount, isReconnecting, cooldownTimers>>]_vars

\* C18 witness: an escalation from strategy 0 has just attached strategy 1.
C18_Witness ==
    /\ lastOp = "hlsFatalOther"
    /\ attached
    /\ ~secure
    /\ strategyIndex = 1
    /\ videoSrc.idx = 1

\* C19: the expiry of a cooldown timer sets strategyIndex to 0, increments
\* retryCount by 1 and clears isReconnecting in one step, and that step
\* attaches strategy 0.
C19_CooldownExpiryResets ==
    [][(CooldownExpiry /\ phase = "mounted")
        => /\ strategyIndex' = 0
           /\ retryCount' = retryCount + 1
           /\ ~isReconnecting'
           /\ attached'
           /\ videoSrc'.idx = 0]_vars

\* C19 witness: the only pending cooldown has expired after an exhaustion.
C19_Witness ==
    /\ lastOp = "cooldownExpiry"
    /\ attached
    /\ strategyIndex = 0
    /\ retryCount = 1
    /\ ~isReconnecting
    /\ cooldownTimers = <<>>

\* C20: cooldown is a pure wait: apart from forceRetry and a change of the
\* url, no step attaches a sink while a cooldown timer is pending; entering
\* the cooldown attaches nothing and the expiry is the next attach.
C20_CooldownIsPureWait ==
    [][(attached' /\ phase = "mounted" /\ ~forceRetry /\ ~UrlChange)
        => cooldownTimers' = <<>>]_vars

\* C21: a fatal error whose category is neither network nor media escalates
\* at once and exactly once: the failing Hls instance is destroyed, the next
\* strategy is attached in the same step, and what is alive afterwards is at
\* most the instance of the new attempt (none for the native strategy).
C21_OtherFatalEscalatesOnce ==
    [][HlsFatalError("other")
        => /\ strategyIndex' = strategyIndex + 1
           /\ UNCHANGED <<retryCount, isReconnecting, cooldownTimers>>
           /\ attached'
           /\ videoSrc'.idx = strategyIndex'
           /\ liveHls' \subseteq {hlsRef'}
           /\ strategyIndex' = 3 => (liveHls' = {} /\ videoSrc'.mode = "NATIVE")]_vars

\* C21 witness: the Hls attempt at strategy 2 failed fatally and the native
\* strategy is attached with no Hls instance left.
C21_Witness ==
    /\ lastOp = "hlsFatalOther"
    /\ attached
    /\ strategyIndex = 3
    /\ liveHls = {}
    /\ videoSrc.mode = "NATIVE"

\* C22: on the native path the <video> carries at most one error listener; an
\* error schedules exactly one grace timer of 1 time-unit and does nothing
\* else (no recovery call, no change of the session); when the timer of the
\* still attached attempt is due it escalates exactly once.
C22_NativeErrorEscalatesAfterGrace ==
    [][/\ Cardinality(errListeners') <= 1
       /\ onNativeError
            => /\ graceTimers' = Append(graceTimers, [rem |-> 1, cur |-> TRUE])
               /\ UNCHANGED <<strategyIndex, retryCount, isReconnecting, cooldownTimers>>
               /\ UNCHANGED <<videoSrc, hlsRef, liveHls, recovered>>
               /\ ~attached'
       /\ (GraceExpiry /\ phase = "mounted" /\ Head(graceTimers).cur)
            => /\ Head(graceTimers).rem = 0
               /\ Len(graceTimers') = Len(graceTimers) - 1
               /\ IF strategyIndex < 3
                  THEN strategyIndex' = strategyIndex + 1 /\ cooldownTimers' = cooldownTimers
                  ELSE strategyIndex' = 3 /\ cooldownTimers' = Append(cooldownTimers, 3)]_vars

\* C22 witness: without Hls support the native attempt at strategy 0 failed and
\* its grace timer attached strategy 1.
C22_Witness ==
    /\ lastOp = "graceExpiry"
    /\ attached
    /\ ~hlsSupported
    /\ strategyIndex = 1
    /\ videoSrc.mode = "NATIVE"
    /\ graceTimers = <<>>

\* C23: forceRetry sets strategyIndex to 0, retryCount to 0 and the error to
\* null from any state of the mounted player, and the attempt attached after
\* it is the one of strategy 0.
C23_ForceRetryResets ==
    [][forceRetry
        => /\ strategyIndex' = 0
           /\ retryCount' = 0
           /\ error' = Null
           /\ videoSrc'.idx = 0]_vars

\* C23 witness: a forced retry during a cooldown has attached strategy 0.
C23_Witness ==
    /\ lastOp = "forceRetry"
    /\ attached
    /\ strategyIndex = 0
    /\ retryCount = 0
    /\ cooldownTimers # <<>>

\* C24: whenever the player is loading on an attached Hls instance, a tick of
\* its watchdog that finds the sink not paused and not ready performs the
\* nudge.
C24_StallNudges ==
    (phase = "mounted" /\ isLoading /\ hlsRef \in liveHls)
        => \A w \in watchdogs :
              StallDetected(FALSE, FALSE, w.loading) /\ handleStall = "nudge"

\* C25: at most one watchdog interval is active at any time, and for the
\* mounted player it is the one watchdogTimerRef refers to.
C25_OneWatchdog ==
    /\ Cardinality(watchdogs) <= 1
    /\ phase = "mounted" => \E w \in watchdogs : w.id = watchdogTimerRef

\* C25 witness: the native attempt was re-attached on entering the cooldown;
\* the native cleanup clears nothing, the effect cleared the old interval.
C25_Witness ==
    /\ lastOp = "graceExpiry"
    /\ attached
    /\ strategyIndex = 3
    /\ isReconnecting
    /\ Cardinality(watchdogs) = 1

\* C26: the lifecycle signals of the sink (play, pause, waiting, playing,
\* manifest parsed) change only isLoading and isPlaying: strategyIndex,
\* retryCount, isReconnecting, the sink, the timers and the error stay as they
\* are and nothing is attached.
C26_LifecycleKeepsSession ==
    [][(onPlayEvent \/ onPauseEvent \/ onWaiting \/ onPlaying \/ onManifestParsed)
        => /\ UNCHANGED <<strategyIndex, retryCount, isReconnecting, error, url>>
           /\ UNCHANGED <<hlsRef, liveHls, videoSrc, watchdogs, cooldownTimers, graceTimers>>
           /\ ~attached']_vars

\* C26 witness (scenario B): the first strategy plays; the session is at
\* index 0 with retryCount 0.
C26_Witness ==
    /\ lastOp = "mount"
    /\ isPlaying
    /\ ~isLoading
    /\ strategyIndex = 0
    /\ retryCount = 0
    /\ ~isReconnecting

\* C27: for a player whose initial index was 1 (https page, 'http:' address)
\* a cooldown expiry restarts at strategy 0 all the same: the Direct transform
\* of the address is attached.
C27_RestartIgnoresGuard ==
    [][(CooldownExpiry /\ phase = "mounted" /\ secure /\ StartsWith(url, "http:"))
        => /\ strategyIndex' = 0
           /\ videoSrc'.idx = 0
           /\ videoSrc'.src = DirectTransform(url)]_vars

\* C27 witness: the restart at strategy 0 of a player the guard applies to.
C27_Witness ==
    /\ lastOp = "cooldownExpiry"
    /\ attached
    /\ secure
    /\ StartsWith(url, "http:")
    /\ videoSrc.idx = 0

\* C28: for every address over the tested features: Direct rewrites the
\* 'output=ts' marker, else appends '.m3u8' when there is no '.m3u8', no '.mp4'
\* and no '?'; Gateway 1 wraps the output of Direct; Gateway 2 wraps the
\* address with the marker rewrite only, nothing appended; Native returns the
\* address itself; strategies 0 to 2 are HLS and strategy 3 is NATIVE; the
\* attached source is the transform of the attached strategy.
C28_Transforms ==
    LET rewritten == [k \in 1..Len(url) |->
                        IF url[k] = "output=ts" THEN "output=m3u8" ELSE url[k]]
        plain == ~Includes(url, ".m3u8") /\ ~Includes(url, ".mp4") /\ ~Includes(url, "?")
    IN  /\ DirectTransform(url) =
               IF Includes(url, "output=ts") THEN rewritten
               ELSE IF plain THEN url \o <<".m3u8">> ELSE url
        /\ Gateway1Transform(url) =
               <<"https://corsproxy.io/?">> \o encodeURIComponent(DirectTransform(url))
        /\ Gateway2Transform(url) =
               <<"https://api.codetabs.com/v1/proxy?quest=">> \o encodeURIComponent(rewritten)
        /\ Len(Gateway2Transform(url)) = Len(url) + 1
        /\ NativeTransform(url) = url
        /\ \A i \in 0..2 : StrategyMode(i) = "HLS"
        /\ StrategyMode(3) = "NATIVE"
        /\ videoSrc # NoSrc => videoSrc.src = StrategyTransform(videoSrc.idx, url)

\* C28 witness: Gateway 2 attached for an address with no extension and no
\* query: nothing was appended to it.
C28_Witness ==
    /\ attached
    /\ videoSrc.idx = 2
    /\ ~Includes(url, ".m3u8") /\ ~Includes(url, ".mp4") /\ ~Includes(url, "?")
    /\ ~Includes(url, "output=ts")
    /\ videoSrc.src = <<"https://api.codetabs.com/v1/proxy?quest=">> \o encodeURIComponent(url)

\* C29: at most one cooldown timer is pending at any time.
C29_OneCooldownTimer == Len(cooldownTimers) <= 1

\* C30: a cooldown timer resets the mounted player only while it is in
\* cooldown: just before the expiry isReconnecting is true and strategyIndex
\* is the last index.
C30_ExpiryOnlyInCooldown ==
    [][(CooldownExpiry /\ phase = "mounted")
        => (isReconnecting /\ strategyIndex = 3)]_vars

\* C31: the reconnecting indication does not stay set for ever over a playing
\* stream: whenever the mounted player shows isReconnecting after the sink has
\* reported playing (as after forceRetry), eventually isReconnecting is false,
\* or the attempt is replaced (the effect re-runs and loads again), or the
\* player is torn down.
C31_ReconnectingClears ==
    (phase = "mounted" /\ isReconnecting /\ ~isLoading)
        ~> (~isReconnecting \/ isLoading \/ phase # "mounted")

\* the answers of the network that fetchPlaylist takes: no exception and
\* content that passes validateContent
Passes(k) == net[k] # Throws /\ validateContent(net[k])

FirstPassing == {k \in 1..4 : Passes(k) /\ \A j \in 1..(k - 1) : ~Passes(j)}

\* C32: fetchPlaylist asks the sources in the order direct, proxy 1, proxy 2,
\* proxy 3 and returns the content of the first source whose answer passes
\* validateContent, having asked exactly the sources up to that one; it throws
\* (the loader call ends without reaching its parse step) exactly when none of
\* the four answers passes.
C32_FetchOrder ==
    [][FetchDone =>
        IF FirstPassing = {}
        THEN /\ Len(loads') = Len(loads) - 1
             /\ \A i \in DOMAIN loads' : loads'[i] \in {loads[j] : j \in DOMAIN loads}
        ELSE \E k \in FirstPassing : \E i \in DOMAIN loads :
                /\ loads[i].pc = "fetch"
                /\ loads' = [loads EXCEPT ![i] =
                               [kind |-> loads[i].kind, pc |-> "prepare",
                                requests |-> SubSeq(Sources, 1, k), text |-> net[k]]]]_vars

\* C32 witness: a loader call holds the content of proxy 2, after the direct
\* address threw and proxy 1 answered with invalid content.
C32_Witness ==
    \E i \in DOMAIN loads :
        /\ loads[i].pc = "prepare"
        /\ loads[i].requests = <<"direct", "corsproxy.io", "api.allorigins.win">>
        /\ loads[i].text = net[3]
        /\ net[1] = Throws
        /\ net[2] # Throws

\* C33: the loading flag of App is true whenever a loader call is in flight.
C33_LoadingWhileInFlight == loads # <<>> => appIsLoading

\* C34: in every state, appState DASHBOARD or PLAYER implies a non-empty
\* playlist and appState PLAYER implies that currentChannel is set and has a
\* non-empty url; startPlaying with a channel without url leaves appState,
\* currentChannel and history unchanged.
C34_Navigation ==
    /\ [](/\ appState \in {"DASHBOARD", "PLAYER"} => playlist # <<>>
          /\ appState = "PLAYER" =>
                (currentChannel # <<>> /\ currentChannel[1].url # <<>>))
    /\ [][(\E channel \in Offered : channel.url = <<>> /\ startPlaying(channel))
            => UNCHANGED <<appState, currentChannel, history>>]_vars

\* C34 witness: the player view is shown while the history offers a channel
\* without url.
C34_Witness ==
    /\ appState = "PLAYER"
    /\ currentChannel # <<>>
    /\ \E channel \in Offered : channel.url = <<>>

\* C35: starting from an empty history, the history holds at most 50
\* channels, no two with the same id, and the channel played last is first.
C35_HistoryShape ==
    /\ Len(history) <= 50
    /\ \A i, j \in DOMAIN history : i # j => history[i].id # history[j].id
    /\ currentChannel # <<>> => (history # <<>> /\ history[1] = currentChannel[1])

\* C35 witness: more than 50 channels have been played and one of them twice;
\* the history is full.
C35_Witness ==
    /\ Len(history) = 50
    /\ NextNew > 51
    /\ replays = 1

\* the lines of the uploaded file as parseM3U reads them, without surrounding
\* whitespace
IsEntry(l) == StartsWith(Trim(l), "#EXTINF:")

IsAddress(l) == StartsWithHttp(Trim(l))

\* the 'http' lines that follow entry i before the next entry
AddressesOf(i) ==
    {j \in DOMAIN content :
        j > i /\ IsAddress(content[j]) /\ \A m \in (i + 1)..j : ~IsEntry(content[m])}

Emitting == {i \in DOMAIN content : IsEntry(content[i]) /\ AddressesOf(i) # {}}

\* C36: parseM3U emits one channel for each '#EXTINF:' line that is followed,
\* before the next '#EXTINF:' line, by a line starting with 'http' (lines read
\* without surrounding whitespace), paired with the first such line; other
\* 'http' lines are dropped; the channels are in the order of the file, each
\* with a name and a url.
C36_ParseEntries ==
    LET channels == IF appState = "DASHBOARD" THEN playlist ELSE parseM3U(content)
    IN  /\ Len(channels) = Cardinality(Emitting)
        /\ \A k \in DOMAIN channels :
              \E i \in Emitting :
                 /\ Cardinality({m \in Emitting : m <= i}) = k
                 /\ channels[k].id[1] = i
                 /\ \E j \in AddressesOf(i) :
                       /\ \A m \in AddressesOf(i) : j <= m
                       /\ channels[k].url = Trim(content[j])
                 /\ channels[k].name # <<>>
                 /\ channels[k].url # <<>>

\* C36 witness: a file with an indented line, three 'http' lines and two
\* entries that have one has been uploaded and parsed into two channels.
C36_Witness ==
    /\ appState = "DASHBOARD"
    /\ Len(playlist) = 2
    /\ Cardinality({j \in DOMAIN content : IsAddress(content[j])}) = 3
    /\ \E j \in DOMAIN content : content[j] # Trim(content[j])

\* the places of the result of processSeries: series, season, position
PlacesOf(series, n) ==
    {<<i, s, p>> \in (DOMAIN series) \X (0..2) \X (1..n) :
        s \in DOMAIN series[i].seasons /\ p <= Len(series[i].seasons[s])}

RECURSIVE SumOfCounts(_)
SumOfCounts(series) ==
    IF series = <<>> THEN 0 ELSE Head(series).episodeCount + SumOfCounts(Tail(series))

\* C37: processSeries partitions its input (the SERIES channels of the
\* playlist): every input channel is at exactly one place of the result, the
\* episodeCount of each series is the number of channels in its seasons, and
\* the episodeCounts add up to the number of input channels.
C37_SeriesPartition ==
    LET input == SeriesChannels(IF appState = "DASHBOARD" THEN playlist
                                ELSE parseM3U(content))
        series == processSeries(input)
        places == PlacesOf(series, Len(input))
    IN  /\ \A i \in DOMAIN series : DOMAIN series[i].seasons \subseteq 0..2
        /\ \A k \in DOMAIN input :
              Cardinality({pl \in places :
                              series[pl[1]].seasons[pl[2]][pl[3]] = input[k]}) = 1
        /\ Cardinality(places) = Len(input)
        /\ \A i \in DOMAIN series :
              series[i].episodeCount = Cardinality({pl \in places : pl[1] = i})
        /\ SumOfCounts(series) = Len(input)

\* C37 witness: the playlist on the Dashboard holds a series with two
\* episodes in one season and a second series.
C37_Witness ==
    /\ appState = "DASHBOARD"
    /\ LET series == processSeries(SeriesChannels(playlist))
       IN  /\ Len(series) = 2
           /\ \E i \in DOMAIN series : \E s \in DOMAIN series[i].seasons :
                  Len(series[i].seasons[s]) = 2

=============================================================================
